---------------------------- MODULE Spec2Model ----------------------------
(***************************************************************************)
(* A model of the box-label renderer (renderer.py): key normalisation,     *)
(* template resolution, layout resolution, overlay drawing, one-row        *)
(* rendering and the batch run.                                            *)
(*                                                                         *)
(* Text is modelled as a sequence of one-character strings, so that        *)
(* normalisation, file-name matching and path building are computed the    *)
(* way the code computes them.  Python's None is the one-element sequence  *)
(* None, whose element is no character of any text.                        *)
(***************************************************************************)
EXTENDS Integers, Sequences, FiniteSets, TLC

VARIABLES
    font_exists,      \* whether the typeface file is at font_path
    coords_doc,       \* the registry document at coords_json_path, or NoFile
    columns,          \* the column names of the input table
    defaults,         \* registry: brand -> layout                (load_coords)
    template_coords,  \* registry: <<brand, template_key>> -> layout
    template_store,   \* template_root: brand directory -> os.listdir order
    icon_store,       \* icon_dir: the set of file names in it
    outdir,           \* out_dir: file name -> content
    rows,             \* the input table, in source order (df.iterrows)
    limit,            \* run_render's limit
    pc,               \* position of the running call
    count,            \* run_render's count
    out_files,        \* run_render's out_files
    cur,              \* locals of the render_row call in progress
    err,              \* the exception that left the call, or NoErr
    log,              \* history: what each row did, in order of occurrence
    args,             \* a pure function's arguments (function specifications)
    ret               \* what it returned, or raised

vars == <<font_exists, coords_doc, columns, defaults, template_coords, template_store, icon_store, outdir, rows,
          limit, pc, count, out_files, cur, err, log, args, ret>>

envvars == <<font_exists, coords_doc, columns, defaults, template_coords, template_store, icon_store>>
runvars == <<outdir, rows, limit, count, out_files, cur, err, log>>

-----------------------------------------------------------------------------
(* Bounds of the explored inputs. *)

\* longest text enumerated over NormAlphabet for norm / the country code
MaxLen == 3

-----------------------------------------------------------------------------
(* Text *)

None == <<"<None>">>

\* what \s matches and str.strip() strips, among the characters modelled
WS == {" ", "\t", "\n", "\r", "\f"}

UpperChars == <<"A","B","C","D","E","F","G","H","I","J","K","L","M",
                "N","O","P","Q","R","S","T","U","V","W","X","Y","Z">>
LowerChars == <<"a","b","c","d","e","f","g","h","i","j","k","l","m",
                "n","o","p","q","r","s","t","u","v","w","x","y","z">>

\* str.lower() on one character
LowerOf(c) ==
    IF \E i \in 1..Len(UpperChars) : UpperChars[i] = c
    THEN LowerChars[CHOOSE i \in 1..Len(UpperChars) : UpperChars[i] = c]
    ELSE c

\* str.upper() on one character
UpperOf(c) ==
    IF \E i \in 1..Len(LowerChars) : LowerChars[i] = c
    THEN UpperChars[CHOOSE i \in 1..Len(LowerChars) : LowerChars[i] = c]
    ELSE c

Lower(s) == [i \in 1..Len(s) |-> LowerOf(s[i])]
Upper(s) == [i \in 1..Len(s) |-> UpperOf(s[i])]

\* re.sub(r"\s+", "", s): every run of whitespace is deleted
RemoveWs(s) == SelectSeq(s, LAMBDA c : c \notin WS)

RECURSIVE LStrip(_)
LStrip(s) == IF s # <<>> /\ Head(s) \in WS THEN LStrip(Tail(s)) ELSE s

RECURSIVE RStrip(_)
RStrip(s) ==
    IF s # <<>> /\ s[Len(s)] \in WS THEN RStrip(SubSeq(s, 1, Len(s) - 1)) ELSE s

\* str.strip()
Strip(s) == RStrip(LStrip(s))

\* str(s or ""): None (and the empty text) become ""
StrOrEmpty(s) == IF s = None \/ s = <<>> THEN <<>> ELSE s

\* str(s): None prints as "None"
Str(s) == IF s = None THEN <<"N","o","n","e">> ELSE s

\* a norm that forgets the `or ""` guard: str(None) is "None"
norm_unguarded(s) == Lower(Strip(RemoveWs(Str(s))))

\* renderer.norm
norm(s) == Lower(Strip(RemoveWs(StrOrEmpty(s))))

\* get_icon_path, line 69: the country code of the icon's file name
country_code(country) == Upper(Strip(RemoveWs(StrOrEmpty(country))))

IconPrefix == <<"i","c","o","n","_">>
PngExt == <<".","p","n","g">>

\* get_icon_path: the icon's file name inside icon_dir
get_icon_path(country) == IconPrefix \o country_code(country) \o PngExt

IsBlank(s) == s = None \/ \A i \in 1..Len(s) : s[i] \in WS

-----------------------------------------------------------------------------
(* Values shared by the specifications *)

NoErr == [type |-> "none"]
NoRet == [kind |-> "none"]
Idle == [step |-> "idle"]
NoFile == [no_file |-> TRUE]

\* the state of the setup inputs where a function specification has none
SetupIdle ==
    /\ font_exists = TRUE
    /\ coords_doc = NoFile
    /\ columns = {}

\* the state of everything a function specification does not use
EnvIdle ==
    /\ SetupIdle
    /\ defaults = <<>>
    /\ template_coords = <<>>
    /\ template_store = <<>>
    /\ icon_store = {}

RunIdle ==
    /\ outdir = <<>>
    /\ rows = <<>>
    /\ limit = 0
    /\ count = 0
    /\ out_files = <<>>
    /\ cur = Idle
    /\ err = NoErr
    /\ log = <<>>

-----------------------------------------------------------------------------
(* SpecNorm: norm and the country-code variant applied, once and again *)

NormAlphabet == {"a", "B", " ", "\t", "_"}

TextsUpTo(n) == UNION {[1..k -> NormAlphabet] : k \in 0..n}

NormInputs == TextsUpTo(MaxLen) \cup {None}

NormInit ==
    /\ EnvIdle
    /\ RunIdle
    /\ pc = "call"
    /\ args \in [fn : {"norm", "country_code"}, s : NormInputs]
    /\ ret = <<>>

\* the function under test applied to s
NormApply(fn, s) == IF fn = "norm" THEN norm(s) ELSE country_code(s)

\* key = norm(s)
NormCall ==
    /\ pc = "call"
    /\ ret' = <<NormApply(args.fn, args.s)>>
    /\ pc' = "once"
    /\ UNCHANGED <<envvars, runvars, args>>

\* norm(key): the key normalised again
NormAgain ==
    /\ pc = "once"
    /\ ret' = Append(ret, NormApply(args.fn, ret[1]))
    /\ pc' = "twice"
    /\ UNCHANGED <<envvars, runvars, args>>

NormNext == NormCall \/ NormAgain

SpecNorm == NormInit /\ [][NormNext]_vars

\* a text holds no whitespace and, for norm, no upper-case letter (for the
\* country code, no lower-case letter)
IsKey(fn, k) ==
    /\ k # None
    /\ \A i \in 1..Len(k) :
        /\ k[i] \notin WS
        /\ IF fn = "norm" THEN LowerOf(k[i]) = k[i] ELSE UpperOf(k[i]) = k[i]

\* C9: normalisation (norm, and the upper-casing variant of get_icon_path) is
\* total and idempotent: every input, None included, yields a key; the key
\* normalised again is the same key; None, empty and whitespace-only inputs
\* yield the empty text.
C9_NormIdempotentTotal ==
    /\ pc \in {"once", "twice"} =>
        /\ IsKey(args.fn, ret[1])
        /\ IsBlank(args.s) => ret[1] = <<>>
    /\ pc = "twice" => ret[2] = ret[1]

\* a text that normalisation changes was normalised, and its key again
C9_Witness ==
    /\ pc = "twice"
    /\ args.s = <<" ", "B", "\t">>
    /\ ret[1] # args.s
    /\ ret[1] # <<>>

-----------------------------------------------------------------------------
(* Texts used as inputs: brands, box types, box groups and file names *)

T_iloom == <<"i","l","o","o","m">>
T_ILOOM == <<"I","L","O","O","M">>
T_desker == <<"d","e","s","k","e","r">>
T_nobrand == <<"n","o","b","r","a","n","d">>
T_basic == <<"b","a","s","i","c">>
T_BASIC == <<"B","A","S","I","C">>
T_sp_Basic == <<" ","B","a","s","i","c">>
T_M == <<"M">>
T_sp_M_sp == <<" ","M"," ">>
T_m == <<"m">>
T_L == <<"L">>
T_ZZZ == <<"Z","Z","Z">>
F_Basic_M_pdf == <<"B","a","s","i","c","_","M",".","p","d","f">>
F_basic_sp_m_PDF == <<"b","a","s","i","c"," ","_","m",".","P","D","F">>
F_Basic_M_png == <<"B","a","s","i","c","_","M",".","p","n","g">>
F_BASIC_L_pdf == <<"B","A","S","I","C","_","L",".","p","d","f">>
F_dot_pdf == <<".","p","d","f">>
F_basic_m == <<"b","a","s","i","c","_","m">>
PdfExt == <<".","p","d","f">>

-----------------------------------------------------------------------------
(* Bounds of the explored stores *)

\* most files in one brand directory
MaxFiles == 2

-----------------------------------------------------------------------------
(* Template resolution: find_template_pdf *)

Raise(type, what, msg) == [kind |-> "raise", type |-> type, what |-> what, msg |-> msg]
Return(v) == [kind |-> "ok", value |-> v]

EndsWith(s, suf) ==
    /\ Len(s) >= Len(suf)
    /\ SubSeq(s, Len(s) - Len(suf) + 1, Len(s)) = suf

\* os.path.splitext(fn)[0] of a file name: the text before the last dot, unless
\* only dots precede that dot (then the whole name)
SplitextStem(fn) ==
    LET dots == {i \in 1..Len(fn) : fn[i] = "."}
    IN  IF dots = {} THEN fn
        ELSE LET last == CHOOSE i \in dots : \A j \in dots : j <= i
             IN  IF \A j \in 1..(last - 1) : fn[j] = "." THEN fn
                 ELSE SubSeq(fn, 1, last - 1)

\* fn.lower().endswith(".pdf")
IsPdfName(fn) == EndsWith(Lower(fn), PdfExt)

\* fn.endswith(".pdf"): the extension compared without lower-casing
IsPdfNameExact(fn) == EndsWith(fn, PdfExt)

\* the loop over os.listdir(brand_dir): the first file that passes
RECURSIVE FirstMatch(_, _, _)
FirstMatch(listing, target, i) ==
    IF i > Len(listing) THEN None
    ELSE IF IsPdfName(listing[i]) /\ norm(SplitextStem(listing[i])) = target
         THEN listing[i]
         ELSE FirstMatch(listing, target, i + 1)

RECURSIVE FirstMatchExact(_, _, _)
FirstMatchExact(listing, target, i) ==
    IF i > Len(listing) THEN None
    ELSE IF IsPdfNameExact(listing[i]) /\ norm(SplitextStem(listing[i])) = target
         THEN listing[i]
         ELSE FirstMatchExact(listing, target, i + 1)

\* the text of "<brand>/<box_type>_<box_group>.pdf" in the not-found message
TemplateLabel(brand, box_type, box_group) ==
    brand \o <<"/">> \o box_type \o <<"_">> \o box_group \o PdfExt

\* the loop comparing only the box type: key.startswith(norm(box_type))
RECURSIVE FirstMatchPrefix(_, _, _)
FirstMatchPrefix(listing, prefix, i) ==
    IF i > Len(listing) THEN None
    ELSE IF /\ IsPdfName(listing[i])
            /\ Len(norm(SplitextStem(listing[i]))) >= Len(prefix)
            /\ SubSeq(norm(SplitextStem(listing[i])), 1, Len(prefix)) = prefix
         THEN listing[i]
         ELSE FirstMatchPrefix(listing, prefix, i + 1)

\* find_template_pdf matching a file by its box type alone
find_template_pdf_by_box_type(store, brand, box_type, box_group) ==
    IF brand \notin DOMAIN store
    THEN Raise("FileNotFoundError", "brand_dir", brand)
    ELSE LET fn == FirstMatchPrefix(store[brand], norm(box_type), 1)
         IN  IF fn # None THEN Return([dir |-> brand, fn |-> fn])
             ELSE Raise("FileNotFoundError", "template",
                        TemplateLabel(brand, box_type, box_group))

\* find_template_pdf whose extension test is case-sensitive
find_template_pdf_exact_ext(store, brand, box_type, box_group) ==
    IF brand \notin DOMAIN store
    THEN Raise("FileNotFoundError", "brand_dir", brand)
    ELSE LET target == norm(box_type \o <<"_">> \o box_group)
             fn == FirstMatchExact(store[brand], target, 1)
         IN  IF fn # None THEN Return([dir |-> brand, fn |-> fn])
             ELSE Raise("FileNotFoundError", "template",
                        TemplateLabel(brand, box_type, box_group))

\* find_template_pdf over the template store (template_root)
find_template_pdf(store, brand, box_type, box_group) ==
    IF brand \notin DOMAIN store
    THEN Raise("FileNotFoundError", "brand_dir", brand)
    ELSE LET target == norm(box_type \o <<"_">> \o box_group)
             fn == FirstMatch(store[brand], target, 1)
         IN  IF fn # None THEN Return([dir |-> brand, fn |-> fn])
             ELSE Raise("FileNotFoundError", "template",
                        TemplateLabel(brand, box_type, box_group))

-----------------------------------------------------------------------------
(* SpecFind: find_template_pdf applied to a brand directory *)

FindFiles ==
    {F_Basic_M_pdf, F_basic_sp_m_PDF, F_Basic_M_png, F_BASIC_L_pdf, F_dot_pdf,
     F_basic_m}

\* directory listings: up to n distinct file names, in any order
Listings(files, n) ==
    {l \in UNION {[1..k -> files] : k \in 0..n} :
        \A i, j \in 1..Len(l) : i # j => l[i] # l[j]}

FindBrands == {T_iloom, T_nobrand}
FindBoxTypes == {T_basic, T_BASIC, T_sp_Basic}
FindBoxGroups == {T_M, T_sp_M_sp, T_m, T_L, T_ZZZ}

FindInit ==
    /\ SetupIdle
    /\ defaults = <<>>
    /\ template_coords = <<>>
    /\ \E l \in Listings(FindFiles, MaxFiles) : template_store = (T_iloom :> l)
    /\ icon_store = {}
    /\ RunIdle
    /\ pc = "call"
    /\ args \in [brand : FindBrands, box_type : FindBoxTypes, box_group : FindBoxGroups]
    /\ ret = NoRet

FindCall ==
    /\ pc = "call"
    /\ ret' = find_template_pdf(template_store, args.brand, args.box_type, args.box_group)
    /\ pc' = "ret"
    /\ UNCHANGED <<envvars, runvars, args>>

FindNext == FindCall

SpecFind == FindInit /\ [][FindNext]_vars

\* the target key of the call's arguments
FindTarget == norm(args.box_type \o <<"_">> \o args.box_group)

\* the .pdf files (extension in any case) of the brand directory whose
\* normalised stem is the target key
FindCandidates ==
    IF args.brand \in DOMAIN template_store
    THEN {i \in 1..Len(template_store[args.brand]) :
            LET fn == template_store[args.brand][i]
            IN  /\ IsPdfName(fn)
                /\ norm(SplitextStem(fn)) = FindTarget}
    ELSE {}

\* C5: in an existing brand directory, find_template_pdf returns a file exactly
\* when some file with a .pdf extension (in any letter case) has a normalised
\* stem equal to normalize(box_type + "_" + box_group); the file returned is a
\* .pdf file of the directory whose normalised stem is that key; and
\* "Basic_M.pdf" resolves for ("basic", " M ") and for ("BASIC", "m").
C5_FindCaseSpaceInsensitive ==
    (pc = "ret" /\ args.brand \in DOMAIN template_store) =>
        /\ ret.kind = "ok" <=> FindCandidates # {}
        /\ ret.kind = "ok" =>
            /\ ret.value.dir = args.brand
            /\ \E i \in 1..Len(template_store[args.brand]) :
                    template_store[args.brand][i] = ret.value.fn
            /\ IsPdfName(ret.value.fn)
            /\ norm(SplitextStem(ret.value.fn)) = FindTarget
        /\ ( /\ \E i \in 1..Len(template_store[args.brand]) :
                    template_store[args.brand][i] = F_Basic_M_pdf
             /\ <<args.box_type, args.box_group>> \in
                    {<<T_basic, T_sp_M_sp>>, <<T_BASIC, T_m>>} )
           => ret.kind = "ok"

\* a file whose name differs from the arguments in case, in whitespace and in
\* the case of its extension was found
C5_Witness ==
    /\ pc = "ret"
    /\ template_store[T_iloom] = <<F_Basic_M_png, F_basic_sp_m_PDF>>
    /\ args.box_type = T_BASIC
    /\ args.box_group = T_sp_M_sp
    /\ ret.kind = "ok"
    /\ ret.value.fn = F_basic_sp_m_PDF

-----------------------------------------------------------------------------
(* Layout resolution: get_cfg_for_template *)

\* Python's None where a layout is expected: dict.get of an absent key, and a
\* JSON null in the registry
NullCfg == [py_none |-> TRUE]

\* the empty layout {}
EmptyCfg == <<>>

\* d.get(k)
DictGet(d, k) == IF k \in DOMAIN d THEN d[k] ELSE NullCfg

\* d.get(k, dflt)
DictGetOr(d, k, dflt) == IF k \in DOMAIN d THEN d[k] ELSE dflt

\* `if cfg:` : None and the empty dict are false
Truthy(cfg) == cfg # NullCfg /\ DOMAIN cfg # {}

\* os.path.basename of a template path
Basename(path) == path.fn

\* get_cfg_for_template
get_cfg_for_template(dflts, tcoords, brand, template_pdf_path) ==
    LET stem == SplitextStem(Basename(template_pdf_path))
        template_key == norm(stem)
        cfg == DictGet(tcoords, <<brand, template_key>>)
        fallback == DictGet(dflts, brand)
    IN  IF Truthy(cfg) THEN Return(cfg)
        ELSE IF Truthy(fallback) THEN Return(fallback)
        ELSE Raise("KeyError", "layout", [brand |-> brand, template_key |-> template_key])

-----------------------------------------------------------------------------
(* SpecCfg: get_cfg_for_template applied to a registry *)

T_basic_m == <<"b","a","s","i","c","_","m">>
T_basic_l == <<"b","a","s","i","c","_","l">>

LayoutA == [pos |-> [L_item_code |-> <<180, 330>>], font_main_size |-> 26]
LayoutB == [pos |-> [L_item_code |-> <<80, 55>>], font_main_size |-> 22]
LayoutD == [pos |-> [R_item_code |-> <<560, 330>>], font_main_size |-> 26]

\* every mapping of some of the keys to one of the values
PartialMaps(keys, vals) == UNION {[K -> vals] : K \in SUBSET keys}

CfgTemplateKeys == {<<T_iloom, T_basic_m>>, <<T_iloom, T_basic_l>>, <<T_desker, T_basic_m>>}
CfgTemplateVals == {NullCfg, EmptyCfg, LayoutA, LayoutB}
CfgDefaultVals == {NullCfg, EmptyCfg, LayoutD}
CfgBrands == {T_iloom, T_desker}
CfgFiles == {F_Basic_M_pdf, F_basic_sp_m_PDF, F_BASIC_L_pdf}

CfgInit ==
    /\ SetupIdle
    /\ defaults \in PartialMaps(CfgBrands, CfgDefaultVals)
    /\ template_coords \in PartialMaps(CfgTemplateKeys, CfgTemplateVals)
    /\ template_store = <<>>
    /\ icon_store = {}
    /\ RunIdle
    /\ pc = "call"
    /\ \E b \in CfgBrands, d \in CfgBrands, fn \in CfgFiles :
            args = [brand |-> b, template_pdf_path |-> [dir |-> d, fn |-> fn]]
    /\ ret = NoRet

CfgCall ==
    /\ pc = "call"
    /\ ret' = get_cfg_for_template(defaults, template_coords, args.brand,
                                   args.template_pdf_path)
    /\ pc' = "ret"
    /\ UNCHANGED <<envvars, runvars, args>>

CfgNext == CfgCall

SpecCfg == CfgInit /\ [][CfgNext]_vars

\* the registry key of the call: (brand, normalised stem of the file name)
CfgKey == <<args.brand, norm(SplitextStem(args.template_pdf_path.fn))>>

\* the mapping holds an entry (a layout, possibly the empty one) for the key
Holds(d, k) == k \in DOMAIN d /\ d[k] # NullCfg

\* C1: layout resolution follows the two-tier precedence for every registry:
\* a template-specific entry for (brand, normalised stem) is returned, even
\* when a brand default exists; with only a brand default, the default is
\* returned; with neither, the call fails with the layout-not-found error
\* naming the brand and the computed key.
C1_TwoTierPrecedence ==
    pc = "ret" =>
        IF Holds(template_coords, CfgKey)
        THEN ret = Return(template_coords[CfgKey])
        ELSE IF Holds(defaults, args.brand)
        THEN ret = Return(defaults[args.brand])
        ELSE /\ ret.kind = "raise"
             /\ ret.type = "KeyError"
             /\ ret.msg = [brand |-> args.brand, template_key |-> CfgKey[2]]

-----------------------------------------------------------------------------
(* Overlay drawing: make_overlay_pdf *)

FontMainDefault == 26
FontSubDefault == 12
FontFallbackSize == 10

\* is_zero_xy on a point [x, y] of numbers
is_zero_xy(xy) == xy[1] = 0 /\ xy[2] = 0

\* is_zero_rect on a rectangle [x, y, w, h] of numbers
is_zero_rect(rect) == rect[1] = 0 /\ rect[2] = 0 /\ rect[3] = 0 /\ rect[4] = 0

\* the SKU key list with the right-hand key moved to the front
SkuKeys_R_first ==
    << [key |-> "R_item_code", field |-> "item_code"],
       [key |-> "L_item_code", field |-> "item_code"],
       [key |-> "L1_item_code", field |-> "item_code"],
       [key |-> "L2_item_code", field |-> "item_code"],
       [key |-> "L3_item_code", field |-> "item_code"] >>

\* the fixed key lists of the two text passes, with the row field each draws
SkuKeys ==
    << [key |-> "L_item_code", field |-> "item_code"],
       [key |-> "L1_item_code", field |-> "item_code"],
       [key |-> "L2_item_code", field |-> "item_code"],
       [key |-> "L3_item_code", field |-> "item_code"],
       [key |-> "R_item_code", field |-> "item_code"] >>

NameKeys ==
    << [key |-> "L_name_ko", field |-> "product_name_ko"],
       [key |-> "L_name_en", field |-> "product_name_en"],
       [key |-> "R_name_ko", field |-> "product_name_ko"],
       [key |-> "R_name_en", field |-> "product_name_en"],
       [key |-> "L1_name_ko", field |-> "product_name_ko"],
       [key |-> "L1_name_en", field |-> "product_name_en"],
       [key |-> "L2_name_ko", field |-> "product_name_ko"],
       [key |-> "L2_name_en", field |-> "product_name_en"],
       [key |-> "L3_name_ko", field |-> "product_name_ko"],
       [key |-> "L3_name_en", field |-> "product_name_en"] >>

OriginKeys == <<"L_origin", "R_origin", "origin">>

\* c.rect(x, y, w, h, fill=1, stroke=0) in white
DrawRect(i, rect) ==
    [op |-> "rect", pass |-> "cover", key |-> "cover_rects", index |-> i,
     at |-> <<rect[1], rect[2]>>, wh |-> <<rect[3], rect[4]>>, fill |-> "white"]

\* c.drawString(x, y, text), or draw_text_rotated_180(c, x, y, text): translate
\* to (x, y), rotate by 180, drawString(0, 0, text)
DrawText(pass, key, xy, text, size, rotated) ==
    [op |-> "drawString", pass |-> pass, key |-> key, at |-> xy, text |-> text,
     size |-> size, rot |-> rotated, pivot |-> xy]

\* c.drawImage(img, x, y, w, h), or draw_image_rotated_180: translate to
\* (x + w, y + h), rotate by 180, drawImage at (0, 0)
DrawImage(key, rect, img, rotated) ==
    [op |-> "drawImage", pass |-> "origin", key |-> key, at |-> <<rect[1], rect[2]>>,
     wh |-> <<rect[3], rect[4]>>, img |-> img, rot |-> rotated,
     pivot |-> IF rotated THEN <<rect[1] + rect[3], rect[2] + rect[4]>>
               ELSE <<rect[1], rect[2]>>]

\* the three tests of a text loop's body that skip a key, without the hide test
TextQualifies_no_hide(pos, hide_cfg, key) ==
    /\ key \in DOMAIN pos
    /\ ~is_zero_xy(pos[key])

\* the three tests of a text loop's body that skip a key
TextQualifies(pos, hide_cfg, key) ==
    /\ key \in DOMAIN pos
    /\ ~DictGetOr(hide_cfg, key, FALSE)
    /\ ~is_zero_xy(pos[key])

\* the three tests of an origin loop's body that skip a key, the zero test lost
IconQualifies_no_zero(icon_pos, icon_hide_cfg, k) ==
    /\ k \in DOMAIN icon_pos
    /\ ~DictGetOr(icon_hide_cfg, k, FALSE)

\* the three tests of an origin loop's body that skip a key
IconQualifies(icon_pos, icon_hide_cfg, k) ==
    /\ k \in DOMAIN icon_pos
    /\ ~DictGetOr(icon_hide_cfg, k, FALSE)
    /\ ~is_zero_rect(icon_pos[k])

\* 1) the cover loop
RECURSIVE CoverPass(_, _)
CoverPass(cover_rects, i) ==
    IF i > Len(cover_rects) THEN <<>>
    ELSE (IF is_zero_rect(cover_rects[i]) THEN <<>>
          ELSE <<DrawRect(i, cover_rects[i])>>)
         \o CoverPass(cover_rects, i + 1)

\* 2) a text loop: the SKU pass and the name pass
TextPass(pass, keys, pos, hide_cfg, rotate_cfg, row, size) ==
    LET drawn == SelectSeq(keys, LAMBDA e : TextQualifies(pos, hide_cfg, e.key))
    IN  [i \in 1..Len(drawn) |->
            DrawText(pass, drawn[i].key, pos[drawn[i].key], Str(row[drawn[i].field]),
                     size, DictGetOr(rotate_cfg, drawn[i].key, FALSE))]

MadeIn == <<"M","A","D","E"," ","I","N"," ">>

\* 3) the origin loops: the icon when its file exists, else the text
OriginPass(icon_pos, icon_hide_cfg, icon_rotate_cfg, row, icons) ==
    LET origin == Strip(Str(DictGetOr(row, "origin_country", <<>>)))
        ip == get_icon_path(origin)
        drawn == SelectSeq(OriginKeys, LAMBDA k : IconQualifies(icon_pos, icon_hide_cfg, k))
    IN  IF ip \in icons
        THEN [i \in 1..Len(drawn) |->
                DrawImage(drawn[i], icon_pos[drawn[i]], ip,
                          DictGetOr(icon_rotate_cfg, drawn[i], FALSE))]
        ELSE [i \in 1..Len(drawn) |->
                LET r == icon_pos[drawn[i]]
                IN  DrawText("origin", drawn[i], <<r[1], r[2] + r[4] + 2>>,
                             MadeIn \o origin, FontFallbackSize,
                             DictGetOr(icon_rotate_cfg, drawn[i], FALSE))]

\* make_overlay_pdf: the draw calls on the canvas, in order
make_overlay_pdf(cfg, row, icons) ==
    LET cover_rects == DictGetOr(cfg, "cover_rects", <<>>)
        pos == DictGetOr(cfg, "pos", <<>>)
        icon_pos == DictGetOr(cfg, "icon_pos", <<>>)
        rotate_cfg == DictGetOr(cfg, "rotate_180", <<>>)
        icon_rotate_cfg == DictGetOr(cfg, "icon_rotate_180", <<>>)
        hide_cfg == DictGetOr(cfg, "hide", <<>>)
        icon_hide_cfg == DictGetOr(cfg, "icon_hide", <<>>)
        font_main_size == DictGetOr(cfg, "font_main_size", FontMainDefault)
        font_sub_size == DictGetOr(cfg, "font_sub_size", FontSubDefault)
    IN  CoverPass(cover_rects, 1)
        \o TextPass("sku", SkuKeys, pos, hide_cfg, rotate_cfg, row, font_main_size)
        \o TextPass("name", NameKeys, pos, hide_cfg, rotate_cfg, row, font_sub_size)
        \o OriginPass(icon_pos, icon_hide_cfg, icon_rotate_cfg, row, icons)

-----------------------------------------------------------------------------
(* SpecOverlay: make_overlay_pdf applied to a layout, a row and an icon store *)

\* most entries (cover rectangles, pos keys and icon_pos keys) in one layout
MaxEntries == 2

T_IL_001 == <<"I","L","-","0","0","1">>
T_IL_002 == <<"I","L","-","0","0","2">>
T_name_ko == <<"k","o">>
T_name_en == <<"T","e","s","t">>
T_CN == <<"C","N">>
T_sp_cn == <<" ","c","n">>
T_KR == <<"K","R">>
F_icon_KR_png == <<"i","c","o","n","_","K","R",".","p","n","g">>
F_icon_CN_png == <<"i","c","o","n","_","C","N",".","p","n","g">>

\* the keys authored in the explored layouts (the passes scan all their keys)
OverlayTextKeys ==
    {"L_item_code", "L1_item_code", "L2_item_code", "L3_item_code", "R_item_code",
     "L_name_ko", "R_name_en"}
OverlayIconKeys == {"L_origin", "origin"}

ZeroPoint == <<0, 0>>
ZeroRect == <<0, 0, 0, 0>>
PointVals == {ZeroPoint, <<180, 330>>}
RectVals == {ZeroRect, <<463, 139, 60, 6>>}
CoverVals == {ZeroRect, <<5, 5, 0, 0>>, <<180, 295, 160, 55>>}

\* how a key is authored: where it is placed, and its hide and rotate flags
KeyVariants == [zero : BOOLEAN, hide : BOOLEAN, rot : BOOLEAN]

\* the flags set among keys ks: a mapping key -> true
Flags(ks) == [k \in ks |-> TRUE]

\* a mapping under name, left out of the layout when it is empty
Optional(name, m) == IF DOMAIN m = {} THEN <<>> ELSE (name :> m)

\* the layout with cover rectangles c and the keys of K authored as a says
BuildLayout(c, K, a) ==
    LET tk == K \cap OverlayTextKeys
        ik == K \cap OverlayIconKeys
    IN  [cover_rects |-> c,
         pos |-> [k \in tk |-> IF a[k].zero THEN ZeroPoint ELSE <<180, 330>>],
         icon_pos |-> [k \in ik |-> IF a[k].zero THEN ZeroRect ELSE <<463, 139, 60, 6>>],
         font_main_size |-> 26,
         font_sub_size |-> 12]
        @@ Optional("hide", Flags({k \in tk : a[k].hide}))
        @@ Optional("rotate_180", Flags({k \in tk : a[k].rot}))
        @@ Optional("icon_hide", Flags({k \in ik : a[k].hide}))
        @@ Optional("icon_rotate_180", Flags({k \in ik : a[k].rot}))

\* the cover-rectangle lists and, beside a list c, the key sets of a layout
OverlayCovers == UNION {[1..n -> CoverVals] : n \in 0..MaxEntries}
OverlayKeySets(c) ==
    {S \in SUBSET (OverlayTextKeys \cup OverlayIconKeys) :
        Cardinality(S) + Len(c) <= MaxEntries}

Row(brand, box_type, box_group, item_code, origin) ==
    [brand |-> brand, box_type |-> box_type, box_group |-> box_group,
     item_code |-> item_code, product_name_ko |-> T_name_ko,
     product_name_en |-> T_name_en, origin_country |-> origin]

OverlayInit ==
    /\ SetupIdle
    /\ defaults = <<>>
    /\ template_coords = <<>>
    /\ template_store = <<>>
    /\ icon_store \in {{F_icon_KR_png}, {F_icon_KR_png, F_icon_CN_png}}
    /\ RunIdle
    /\ pc = "call"
    /\ \E c \in OverlayCovers, origin \in {T_CN, T_sp_cn} :
        \E K \in OverlayKeySets(c) :
            \E a \in [K -> KeyVariants] :
                args = [cfg |-> BuildLayout(c, K, a),
                        row |-> Row(T_iloom, T_BASIC, T_M, T_IL_001, origin)]
    /\ ret = NoRet

OverlayCall ==
    /\ pc = "call"
    /\ ret' = Return(make_overlay_pdf(args.cfg, args.row, icon_store))
    /\ pc' = "ret"
    /\ UNCHANGED <<envvars, runvars, args>>

OverlayNext == OverlayCall

SpecOverlay == OverlayInit /\ [][OverlayNext]_vars

\* the draw calls made for key k
DrawsOf(canvas, k) == SelectSeq(canvas, LAMBDA d : d.key = k)

OvPos == DictGetOr(args.cfg, "pos", <<>>)
OvIconPos == DictGetOr(args.cfg, "icon_pos", <<>>)
OvHide == DictGetOr(args.cfg, "hide", <<>>)
OvIconHide == DictGetOr(args.cfg, "icon_hide", <<>>)

\* C6: zero-suppression: no text is drawn for a pos entry equal to (0,0) and
\* neither an icon nor a fallback text for an icon_pos entry equal to
\* (0,0,0,0), whatever the hide and rotate flags and whether or not the icon
\* file exists.
C6_ZeroSuppression ==
    pc = "ret" =>
        /\ \A k \in DOMAIN OvPos :
                OvPos[k] = ZeroPoint => DrawsOf(ret.value, k) = <<>>
        /\ \A k \in DOMAIN OvIconPos :
                OvIconPos[k] = ZeroRect => DrawsOf(ret.value, k) = <<>>

\* an overlay was drawn for a layout with a zero pos entry flagged rotated and
\* a zero icon_pos entry, beside nothing else, with the icon file missing
C6_Witness ==
    /\ pc = "ret"
    /\ F_icon_CN_png \notin icon_store
    /\ DOMAIN OvPos = {"R_item_code"}
    /\ OvPos["R_item_code"] = ZeroPoint
    /\ "rotate_180" \in DOMAIN args.cfg
    /\ DOMAIN OvIconPos = {"L_origin"}
    /\ OvIconPos["L_origin"] = ZeroRect
    /\ "icon_hide" \notin DOMAIN args.cfg
    /\ ret.value = <<>>

\* C7: hide precedence: a text key present in pos with a non-zero point but
\* flagged in hide is never drawn, and an icon key present in icon_pos with a
\* non-zero rectangle but flagged in icon_hide gets neither an image nor a
\* fallback text, whatever its rotation flag.
C7_HidePrecedence ==
    pc = "ret" =>
        /\ \A k \in DOMAIN OvPos :
                (OvPos[k] # ZeroPoint /\ DictGetOr(OvHide, k, FALSE) = TRUE)
                    => DrawsOf(ret.value, k) = <<>>
        /\ \A k \in DOMAIN OvIconPos :
                (OvIconPos[k] # ZeroRect /\ DictGetOr(OvIconHide, k, FALSE) = TRUE)
                    => DrawsOf(ret.value, k) = <<>>

\* a placed, hidden text key stayed undrawn while a placed key beside it was drawn
C7_Witness ==
    /\ pc = "ret"
    /\ DOMAIN OvPos = {"L_item_code", "R_name_en"}
    /\ OvPos["L_item_code"] # ZeroPoint
    /\ OvPos["R_name_en"] # ZeroPoint
    /\ DictGetOr(OvHide, "L_item_code", FALSE)
    /\ ~DictGetOr(OvHide, "R_name_en", FALSE)
    /\ Len(ret.value) = 1
    /\ ret.value[1].key = "R_name_en"

\* the icon_pos keys an origin mark is due for: present, not hidden, not zero
OvOriginDue ==
    {k \in DOMAIN OvIconPos :
        /\ k \in {"L_origin", "R_origin", "origin"}
        /\ ~DictGetOr(OvIconHide, k, FALSE)
        /\ OvIconPos[k] # ZeroRect}

\* the row's normalised, upper-cased origin code
OvCode == Upper(norm(args.row.origin_country))

\* C8: origin fallback: when no icon file exists for the row's normalised,
\* upper-cased origin code, the overlay is drawn all the same and holds, for
\* each due icon_pos key, exactly one text "MADE IN <CODE>" and no image; when
\* the icon file exists, each due key gets exactly one image and no text.
C8_OriginFallback ==
    pc = "ret" =>
        /\ ret.kind = "ok"
        /\ \A k \in OvOriginDue :
            LET ds == DrawsOf(ret.value, k)
            IN  /\ Len(ds) = 1
                /\ IF (IconPrefix \o OvCode \o PngExt) \in icon_store
                   THEN ds[1].op = "drawImage"
                   ELSE /\ ds[1].op = "drawString"
                        /\ ds[1].text = MadeIn \o OvCode

\* the order the item_code keys are drawn in, and the keys of the name texts
ItemCodeOrder ==
    <<"L_item_code", "L1_item_code", "L2_item_code", "L3_item_code", "R_item_code">>

NameKeySet ==
    {"L_name_ko", "L_name_en", "R_name_ko", "R_name_en", "L1_name_ko", "L1_name_en",
     "L2_name_ko", "L2_name_en", "L3_name_ko", "L3_name_en"}

IndexIn(seq, x) == CHOOSE i \in 1..Len(seq) : seq[i] = x

\* the pass a draw call belongs to, told from what it draws: 1 a cover
\* rectangle, 2 an item_code text, 3 a name text, 4 an origin icon or text
PassRank(d) ==
    IF d.op = "rect" THEN 1
    ELSE IF \E i \in 1..Len(ItemCodeOrder) : ItemCodeOrder[i] = d.key THEN 2
    ELSE IF d.key \in NameKeySet THEN 3
    ELSE 4

\* the text keys due a draw: present in pos, not hidden, not the zero point
OvTextDue ==
    {k \in DOMAIN OvPos :
        /\ PassRank([op |-> "drawString", key |-> k]) \in {2, 3}
        /\ ~DictGetOr(OvHide, k, FALSE)
        /\ OvPos[k] # ZeroPoint}

\* C17: the overlay is drawn in a fixed pass order: every cover rectangle
\* before any item_code text, the item_code texts in the order L, L1, L2, L3, R
\* at font_main_size before any name text (at font_sub_size), every name text
\* before any origin icon or fallback text; each qualifying key is drawn
\* exactly once, turned by 180 degrees exactly when its rotate flag is set: a
\* text about its anchor point, an icon about the far corner of its rectangle.
C17_FixedPassOrder ==
    pc = "ret" =>
        LET c == ret.value
        IN  /\ \A i, j \in 1..Len(c) :
                    i < j =>
                        /\ PassRank(c[i]) <= PassRank(c[j])
                        /\ (PassRank(c[i]) = 1 /\ PassRank(c[j]) = 1) =>
                                c[i].index < c[j].index
                        /\ (PassRank(c[i]) = 2 /\ PassRank(c[j]) = 2) =>
                                IndexIn(ItemCodeOrder, c[i].key)
                                    < IndexIn(ItemCodeOrder, c[j].key)
            /\ \A i \in 1..Len(c) :
                    /\ PassRank(c[i]) = 2 =>
                            /\ c[i].text = Str(args.row.item_code)
                            /\ c[i].size = DictGetOr(args.cfg, "font_main_size", 26)
                    /\ PassRank(c[i]) = 3 =>
                            c[i].size = DictGetOr(args.cfg, "font_sub_size", 12)
            /\ \A k \in OvTextDue :
                    LET ds == DrawsOf(c, k)
                    IN  /\ Len(ds) = 1
                        /\ ds[1].op = "drawString"
                        /\ ds[1].rot = DictGetOr(DictGetOr(args.cfg, "rotate_180", <<>>), k, FALSE)
                        /\ ds[1].at = OvPos[k]
                        /\ ds[1].pivot = OvPos[k]
            /\ \A k \in OvOriginDue :
                    LET ds == DrawsOf(c, k)
                        r == OvIconPos[k]
                    IN  /\ Len(ds) = 1
                        /\ ds[1].rot = DictGetOr(DictGetOr(args.cfg, "icon_rotate_180", <<>>), k, FALSE)
                        /\ ds[1].op = "drawString" => ds[1].pivot = ds[1].at
                        /\ (ds[1].op = "drawImage" /\ ds[1].rot) =>
                                ds[1].pivot = <<r[1] + r[3], r[2] + r[4]>>

\* an overlay with the keys L1_item_code and R_item_code placed, the second
\* flagged rotated, was drawn: L1 first and upright, R second and turned
C17_Witness ==
    /\ pc = "ret"
    /\ DOMAIN OvPos = {"L1_item_code", "R_item_code"}
    /\ Len(ret.value) = 2
    /\ ret.value[1].key = "L1_item_code"
    /\ ~ret.value[1].rot
    /\ ret.value[2].key = "R_item_code"
    /\ ret.value[2].rot

\* the paint calls made for the i-th cover rectangle
PaintsOf(canvas, i) == SelectSeq(canvas, LAMBDA d : d.op = "rect" /\ d.index = i)

\* C18: cover pass: a cover rectangle is painted if and only if it is not a
\* zero-area rectangle: a rectangle whose width or height is 0, whatever its
\* x and y, gets no paint call, and every other rectangle is painted exactly
\* once as an opaque white box.
C18_CoverZeroArea ==
    pc = "ret" =>
        LET covers == DictGetOr(args.cfg, "cover_rects", <<>>)
        IN  \A i \in 1..Len(covers) :
                LET r == covers[i]
                    ps == PaintsOf(ret.value, i)
                IN  IF r[3] = 0 \/ r[4] = 0
                    THEN ps = <<>>
                    ELSE /\ Len(ps) = 1
                         /\ ps[1].at = <<r[1], r[2]>>
                         /\ ps[1].wh = <<r[3], r[4]>>
                         /\ ps[1].fill = "white"

-----------------------------------------------------------------------------
(* Registry loading: load_coords *)

\* a value under "templates": a JSON object with its items, or a value that is
\* no object (null, a list, a string, a number)
JsonDict(items) == [is_dict |-> TRUE, items |-> items]
JsonNonDict == [is_dict |-> FALSE]

\* isinstance(mp, dict)
IsDict(v) == v.is_dict

\* data.get(key, {}) or {}
GetOrEmpty(data, key) ==
    LET v == DictGetOr(data, key, <<>>)
    IN  IF v = NullCfg THEN <<>> ELSE v

\* a registry file whose text is no JSON: json.load raises
BadJson == [bad_json |-> TRUE]

\* load_coords without its os.path.exists test: a missing file loads as empty
load_coords_missing_ok(doc) ==
    IF doc = NoFile
    THEN Return([defaults |-> <<>>, template_coords |-> <<>>])
    ELSE Raise("JSONDecodeError", "coords", <<>>)

\* load_coords: the two mappings of a registry document
load_coords(doc) ==
    IF doc = NoFile
    THEN Raise("FileNotFoundError", "coords", <<>>)
    ELSE IF doc = BadJson
    THEN Raise("JSONDecodeError", "coords", <<>>)
    ELSE LET dflts == GetOrEmpty(doc, "defaults")
             templates == GetOrEmpty(doc, "templates")
             keys == UNION {{<<b, k>> : k \in DOMAIN templates[b].items} :
                                b \in {x \in DOMAIN templates : IsDict(templates[x])}}
         IN  Return([defaults |-> dflts,
                     template_coords |->
                        [bk \in keys |-> templates[bk[1]].items[bk[2]]]])

-----------------------------------------------------------------------------
(* One row and the batch: render_row and run_render *)

\* most rows in the input table
MaxRows == 3

\* largest limit explored
MaxLimit == 2

Required ==
    {"brand", "box_type", "box_group", "item_code", "product_name_ko",
     "product_name_en", "origin_country"}

OverlayFilePrefix == <<"_","_","o","v","e","r","l","a","y","_">>

\* an overlay name that leaves the item code out
OverlayPath_shared(sku) == OverlayFilePrefix \o PdfExt

\* f"__overlay_{sku}.pdf" inside out_dir
OverlayPath(sku) == OverlayFilePrefix \o sku \o PdfExt

\* f"{brand}_{box_type}_{box_group}_{sku}.pdf" inside out_dir
OutPath(brand, box_type, box_group, sku) ==
    brand \o <<"_">> \o box_type \o <<"_">> \o box_group \o <<"_">> \o sku \o PdfExt

\* out_dir with file name written (created or overwritten)
WriteFile(dir, name, content) ==
    [f \in DOMAIN dir \cup {name} |-> IF f = name THEN content ELSE dir[f]]

\* out_dir with file name removed
RemoveFile(dir, name) == [f \in DOMAIN dir \ {name} |-> dir[f]]

\* `if limit and count >= limit`, the comparison off by one
LimitReached_after(lim, cnt) == lim # 0 /\ cnt > lim

\* `if limit and count >= limit`
LimitReached(lim, cnt) == lim # 0 /\ cnt >= lim

Event(i, ev) == [row |-> i, ev |-> ev]

\* the locals of render_row for row i, once its three fields are trimmed
BeginRow(i, dir) ==
    [step |-> "resolve", i |-> i,
     brand |-> Strip(Str(rows[i].brand)),
     box_type |-> Strip(Str(rows[i].box_type)),
     box_group |-> Strip(Str(rows[i].box_group)),
     sku |-> Str(rows[i].item_code),
     before |-> dir,
     overlay_written |-> FALSE,
     remove_failed |-> FALSE]

\* the setup of run_render: the typeface, the registry, the table's columns
RunSetup ==
    /\ pc = "start"
    /\ LET loaded == load_coords(coords_doc)
           missing == Required \ columns
           failure ==
               IF ~font_exists THEN Raise("FileNotFoundError", "font", <<>>)
               ELSE IF loaded.kind = "raise" THEN loaded
               ELSE IF missing # {} THEN Raise("KeyError", "columns", missing)
               ELSE NoRet
       IN  IF failure # NoRet
           THEN /\ pc' = "failed"
                /\ err' = failure
                /\ ret' = failure
                /\ UNCHANGED <<defaults, template_coords, cur>>
           ELSE /\ defaults' = loaded.value.defaults
                /\ template_coords' = loaded.value.template_coords
                /\ IF rows = <<>>
                   THEN /\ pc' = "done"
                        /\ ret' = Return(out_files)
                        /\ cur' = cur
                   ELSE /\ pc' = "row"
                        /\ ret' = ret
                        /\ cur' = BeginRow(1, outdir)
                /\ err' = err
    /\ UNCHANGED <<font_exists, coords_doc, columns, template_store, icon_store,
                   outdir, rows, limit, count, out_files, log, args>>

\* an exception leaves render_row, the loop swallows it and goes on to the next row
RowRaises_skipped(e) ==
    /\ log' = Append(log, Event(cur.i, "raise"))
    /\ IF cur.i < Len(rows)
       THEN /\ pc' = "row"
            /\ cur' = BeginRow(cur.i + 1, outdir)
            /\ ret' = ret
       ELSE /\ pc' = "done"
            /\ cur' = [cur EXCEPT !.step = "raised"]
            /\ ret' = Return(out_files)
    /\ err' = err
    /\ UNCHANGED <<count, out_files>>

\* an exception leaves render_row: nothing in run_render catches it
RowRaises(e) ==
    /\ log' = Append(log, Event(cur.i, "raise"))
    /\ pc' = "failed"
    /\ err' = e
    /\ ret' = e
    /\ cur' = [cur EXCEPT !.step = "raised"]
    /\ UNCHANGED <<count, out_files>>

\* a row step that keeps the layout it selected in the loaded registry
RowFrame_caching ==
    /\ template_coords' =
            [k \in DOMAIN template_coords \cup {<<cur.brand, <<"c","a","c","h","e">> >>} |->
                IF k \in DOMAIN template_coords THEN template_coords[k] ELSE EmptyCfg]
    /\ UNCHANGED <<font_exists, coords_doc, columns, defaults, template_store,
                   icon_store, rows, limit, args>>

\* what a row step leaves alone besides the run's own variables
RowFrame ==
    UNCHANGED <<font_exists, coords_doc, columns, defaults, template_coords,
                template_store, icon_store, rows, limit, args>>

\* render_row, lines 239-244: the template and its layout are looked up
RowResolve ==
    /\ pc = "row"
    /\ cur.step = "resolve"
    /\ LET t == find_template_pdf(template_store, cur.brand, cur.box_type, cur.box_group)
           c == get_cfg_for_template(defaults, template_coords, cur.brand, t.value)
       IN  IF t.kind = "raise" THEN RowRaises(t)
           ELSE IF c.kind = "raise" THEN RowRaises(c)
           ELSE /\ cur' = [step |-> "overlay", template_pdf |-> t.value,
                           cfg |-> c.value] @@ cur
                /\ log' = Append(log, Event(cur.i, "resolve"))
                /\ UNCHANGED <<pc, err, ret, count, out_files>>
    /\ UNCHANGED outdir
    /\ RowFrame

\* render_row, lines 246-249: the template document cannot be read
RowTemplateUnreadable ==
    /\ pc = "row"
    /\ cur.step = "overlay"
    /\ RowRaises(Raise("PdfReadError", "template_read", <<>>))
    /\ UNCHANGED outdir
    /\ RowFrame

\* render_row, lines 246-253: the overlay is drawn and saved to out_dir
RowOverlay ==
    /\ pc = "row"
    /\ cur.step = "overlay"
    /\ outdir' = WriteFile(outdir, OverlayPath(cur.sku),
                    [kind |-> "overlay", by |-> cur.i,
                     draws |-> make_overlay_pdf(cur.cfg, rows[cur.i], icon_store)])
    /\ cur' = [cur EXCEPT !.step = "merge", !.overlay_written = TRUE]
    /\ log' = Append(log, Event(cur.i, "overlay"))
    /\ UNCHANGED <<pc, err, ret, count, out_files>>
    /\ RowFrame

\* render_row, lines 255-256: the overlay is read back and merged on the page
RowMerge ==
    /\ pc = "row"
    /\ cur.step = "merge"
    /\ IF OverlayPath(cur.sku) \notin DOMAIN outdir
       THEN RowRaises(Raise("FileNotFoundError", "overlay", OverlayPath(cur.sku)))
       ELSE /\ cur' = [step |-> "write",
                       page |-> [template |-> cur.template_pdf,
                                 overlay |-> outdir[OverlayPath(cur.sku)]]] @@ cur
            /\ UNCHANGED <<pc, err, ret, count, out_files, log>>
    /\ UNCHANGED outdir
    /\ RowFrame

\* render_row, lines 255-256: reading or merging the overlay raises
RowMergeFails ==
    /\ pc = "row"
    /\ cur.step = "merge"
    /\ RowRaises(Raise("PdfReadError", "merge", <<>>))
    /\ UNCHANGED outdir
    /\ RowFrame

\* render_row, lines 258-262: the output document is written
RowWrite ==
    /\ pc = "row"
    /\ cur.step = "write"
    /\ LET out_path == OutPath(cur.brand, cur.box_type, cur.box_group, cur.sku)
       IN  /\ outdir' = WriteFile(outdir, out_path,
                            [kind |-> "output", by |-> cur.i, page |-> cur.page])
           /\ cur' = [step |-> "remove", out_path |-> out_path] @@ cur
    /\ log' = Append(log, Event(cur.i, "output"))
    /\ UNCHANGED <<pc, err, ret, count, out_files>>
    /\ RowFrame

\* render_row, lines 261-262: opening the output document for writing raises
RowWriteFails ==
    /\ pc = "row"
    /\ cur.step = "write"
    /\ RowRaises(Raise("OSError", "write", <<>>))
    /\ UNCHANGED outdir
    /\ RowFrame

\* render_row, lines 264-269: the overlay is removed and the path returned
RowRemove ==
    /\ pc = "row"
    /\ cur.step = "remove"
    /\ outdir' = RemoveFile(outdir, OverlayPath(cur.sku))
    /\ cur' = [cur EXCEPT !.step = "returned"]
    /\ log' = Append(log, Event(cur.i, "return"))
    /\ UNCHANGED <<pc, err, ret, count, out_files>>
    /\ RowFrame

\* render_row, lines 264-269: os.remove raises, the bare except swallows it
RowRemoveFails ==
    /\ pc = "row"
    /\ cur.step = "remove"
    /\ cur' = [cur EXCEPT !.step = "returned", !.remove_failed = TRUE]
    /\ log' = Append(log, Event(cur.i, "return"))
    /\ UNCHANGED <<pc, err, ret, count, out_files, outdir>>
    /\ RowFrame

\* run_render, lines 306-321: the path is kept, the limit tested, the next row
\* begun or the list returned
LoopStep ==
    /\ pc = "row"
    /\ cur.step = "returned"
    /\ out_files' = Append(out_files, cur.out_path)
    /\ count' = count + 1
    /\ IF LimitReached(limit, count + 1) \/ cur.i = Len(rows)
       THEN /\ pc' = "done"
            /\ ret' = Return(Append(out_files, cur.out_path))
            /\ cur' = cur
       ELSE /\ pc' = "row"
            /\ ret' = ret
            /\ cur' = BeginRow(cur.i + 1, outdir)
    /\ UNCHANGED <<err, log, outdir>>
    /\ RowFrame

-----------------------------------------------------------------------------
(* Spec: run_render over a template store, a registry and an input table *)

T_desker_sp == <<"d","e","s","k","e","r"," ">>
T_sp_L_sp == <<" ","L"," ">>

\* the layout of the "iloom" brand default
LayoutIloom ==
    [cover_rects |-> << <<180, 295, 160, 55>> >>,
     pos |-> [L_item_code |-> <<180, 330>>, R_item_code |-> <<560, 330>>],
     icon_pos |-> [L_origin |-> <<463, 139, 60, 6>>],
     rotate_180 |-> [R_item_code |-> TRUE],
     font_main_size |-> 26,
     font_sub_size |-> 12]

\* the layout authored for the template "basic_l" of "iloom"
LayoutIloomL ==
    [cover_rects |-> <<>>,
     pos |-> [L_item_code |-> <<80, 55>>, L_name_en |-> <<80, 105>>],
     icon_pos |-> [origin |-> <<480, 520, 100, 28>>],
     font_main_size |-> 22,
     font_sub_size |-> 12]

RegistryDoc ==
    [defaults |-> (T_iloom :> LayoutIloom),
     templates |-> (T_iloom :> JsonDict(T_basic_l :> LayoutIloomL))]

TemplateStore ==
    (T_iloom :> <<F_Basic_M_pdf, F_BASIC_L_pdf>>) @@ (T_desker :> <<F_Basic_M_pdf>>)

\* the rows of the explored tables: two that render, one with no template, one
\* with no layout, one naming the brand in upper case
RowOk1 == Row(T_iloom, T_BASIC, T_M, T_IL_001, T_KR)
RowOk2 == Row(T_iloom, T_basic, T_sp_L_sp, T_IL_002, T_sp_cn)
RowNoTemplate == Row(T_iloom, T_BASIC, T_ZZZ, T_IL_001, T_KR)
RowNoLayout == Row(T_desker_sp, T_BASIC, T_M, T_IL_002, T_KR)
RowUpperBrand == Row(T_ILOOM, T_BASIC, T_M, T_IL_001, T_KR)
RowSet == {RowOk1, RowOk2, RowNoTemplate, RowNoLayout, RowUpperBrand}

Init ==
    /\ font_exists \in BOOLEAN
    /\ coords_doc \in {NoFile, RegistryDoc}
    /\ columns \in {Required, Required \ {"origin_country"}}
    /\ defaults = <<>>
    /\ template_coords = <<>>
    /\ template_store = TemplateStore
    /\ icon_store = {F_icon_KR_png}
    /\ outdir = <<>>
    /\ rows \in UNION {[1..n -> RowSet] : n \in 0..MaxRows}
    /\ limit \in 0..MaxLimit
    /\ pc = "start"
    /\ count = 0
    /\ out_files = <<>>
    /\ cur = Idle
    /\ err = NoErr
    /\ log = <<>>
    /\ args = <<>>
    /\ ret = NoRet

Next ==
    \/ RunSetup
    \/ RowResolve
    \/ RowTemplateUnreadable
    \/ RowOverlay
    \/ RowMerge
    \/ RowMergeFails
    \/ RowWrite
    \/ RowWriteFails
    \/ RowRemove
    \/ RowRemoveFails
    \/ LoopStep

Spec == Init /\ [][Next]_vars

-----------------------------------------------------------------------------
(* Properties of the batch run *)

Min(a, b) == IF a <= b THEN a ELSE b

\* the output path of row i
RowOutPath(i) ==
    OutPath(Strip(rows[i].brand), Strip(rows[i].box_type), Strip(rows[i].box_group),
            rows[i].item_code)

\* the events of rows 1..m, each resolved, drawn, written and returned in turn
RECURSIVE RenderedLog(_)
RenderedLog(m) ==
    IF m = 0 THEN <<>>
    ELSE RenderedLog(m - 1) \o
         <<Event(m, "resolve"), Event(m, "overlay"), Event(m, "output"), Event(m, "return")>>

\* C2: rows are processed strictly in source order; a run that ends without an
\* error returns the outputs of the first min(limit, n) rows, in order, when
\* limit > 0 and of all n rows when limit = 0; no row after the limit-th is
\* ever resolved, rendered or written.
C2_BatchOrderAndLimit ==
    /\ \A j, k \in 1..Len(log) : j < k => log[j].row <= log[k].row
    /\ limit > 0 => \A j \in 1..Len(log) : log[j].row <= limit
    /\ (limit > 0 /\ cur.step # "idle") => cur.i <= limit
    /\ (pc = "done" /\ ret.kind = "ok") =>
        LET m == IF limit > 0 THEN Min(limit, Len(rows)) ELSE Len(rows)
        IN  /\ ret.value = [i \in 1..m |-> RowOutPath(i)]
            /\ log = RenderedLog(m)

\* a table of three rows was run with limit 2: two outputs were returned and
\* the third row, which has no template, was never touched
C2_Witness ==
    /\ pc = "done"
    /\ ret.kind = "ok"
    /\ limit = 2
    /\ rows = <<RowOk2, RowOk1, RowNoTemplate>>
    /\ ret.value = <<RowOutPath(1), RowOutPath(2)>>

\* C3: when rendering row k fails, the batch stops there: the error reaches
\* the caller of run_render in place of any list, the rows before k are the
\* only ones returned into out_files, and nothing is resolved, rendered or
\* written after the failure; the failing row is never skipped.
C3_FirstRowErrorAborts ==
    \A j \in 1..Len(log) :
        log[j].ev = "raise" =>
            /\ j = Len(log)
            /\ pc = "failed"
            /\ ret.kind = "raise"
            /\ ret = err
            /\ cur.i = log[j].row
            /\ cur.step = "raised"
            /\ Len(out_files) = log[j].row - 1

\* the second of three rows had no layout: the run failed at it with one
\* path in out_files and the third row untouched
C3_Witness ==
    /\ pc = "failed"
    /\ Len(rows) = 3
    /\ rows[2] = RowNoLayout
    /\ err.type = "KeyError"
    /\ err.what = "layout"
    /\ Len(out_files) = 1
    /\ log[Len(log)] = Event(2, "raise")

IsInfix(t, s) == \E i \in 0..(Len(s) - Len(t)) : SubSeq(s, i + 1, i + Len(t)) = t

\* row i names an existing brand directory none of whose .pdf files has the
\* row's target key
NoTemplateFor(i) ==
    LET brand == Strip(rows[i].brand)
        target == norm(Strip(rows[i].box_type) \o <<"_">> \o Strip(rows[i].box_group))
    IN  /\ brand \in DOMAIN template_store
        /\ \A j \in 1..Len(template_store[brand]) :
                ~(/\ IsPdfName(template_store[brand][j])
                  /\ norm(SplitextStem(template_store[brand][j])) = target)

\* C4: once render_row has looked up the template of a row that matches no
\* template file in an existing brand directory, the call has failed with the
\* template-not-found error whose message names
\* "<brand>/<box_type>_<box_group>", and the output directory is as it was
\* when the call began: no overlay and no output document was created.
C4_MissingTemplate ==
    (cur.step \notin {"idle", "resolve"} /\ NoTemplateFor(cur.i)) =>
        /\ pc = "failed"
        /\ cur.step = "raised"
        /\ err.type = "FileNotFoundError"
        /\ err.what = "template"
        /\ IsInfix(Strip(rows[cur.i].brand) \o <<"/">> \o Strip(rows[cur.i].box_type)
                   \o <<"_">> \o Strip(rows[cur.i].box_group), err.msg)
        /\ outdir = cur.before
        /\ \A j \in 1..Len(log) :
                log[j].row = cur.i => log[j].ev \notin {"overlay", "output"}

\* the row iloom/BASIC/ZZZ followed a rendered row and failed, leaving the
\* output directory with the first row's document alone
C4_Witness ==
    /\ pc = "failed"
    /\ rows = <<RowOk1, RowNoTemplate>>
    /\ cur.step = "raised"
    /\ cur.i = 2
    /\ err.what = "template"
    /\ DOMAIN outdir = {RowOutPath(1)}

\* C10: whenever a render_row call that created the overlay file has ended,
\* by returning a path or by raising during the merge or the writing of the
\* output, the overlay file is gone from the output directory unless its
\* deletion failed; and a failed deletion never makes the call raise.
C10_OverlayCleanup ==
    (cur.step \in {"returned", "raised"} /\ cur.overlay_written) =>
        /\ ~cur.remove_failed => OverlayPath(cur.sku) \notin DOMAIN outdir
        /\ cur.remove_failed => cur.step = "returned"

\* the output documents held by directory dir
OutputsIn(dir) == {f \in DOMAIN dir : dir[f].kind = "output"}

\* C11: one output document per input row: after a batch renders without error
\* the output directory holds one document for each rendered row, at the path
\* "<brand>_<box_type>_<box_group>_<item_code>.pdf" of its row and written by
\* that row; the returned paths are pairwise distinct, so that no row's
\* document is overwritten by a later row.
C11_OneOutputPerRow ==
    (pc = "done" /\ ret.kind = "ok") =>
        LET m == Len(ret.value)
        IN  /\ \A i \in 1..m :
                    /\ ret.value[i] = RowOutPath(i)
                    /\ ret.value[i] \in DOMAIN outdir
                    /\ outdir[ret.value[i]].by = i
            /\ \A i, j \in 1..m : i # j => ret.value[i] # ret.value[j]
            /\ Cardinality(OutputsIn(outdir)) = m

\* C12: a run that ends with a fatal error has halted before any output:
\* no output document has been written to the output directory by the run.
C12_FatalErrorBeforeAnyOutput ==
    pc = "failed" => OutputsIn(outdir) = {}

\* C13: setup failures precede all rendering: when the typeface file is
\* missing, the registry file is missing or the table lacks a required column,
\* run_render has raised (FileNotFoundError, FileNotFoundError, KeyError)
\* before any row was resolved or rendered: no row was begun and the output
\* directory holds no overlay and no output document.
C13_SetupFailuresPrecedeRendering ==
    (pc # "start" /\ (~font_exists \/ coords_doc = NoFile \/ Required \ columns # {})) =>
        /\ pc = "failed"
        /\ ret.kind = "raise"
        /\ ret = err
        /\ err.type = IF ~font_exists \/ coords_doc = NoFile
                      THEN "FileNotFoundError" ELSE "KeyError"
        /\ err.what = IF ~font_exists THEN "font"
                      ELSE IF coords_doc = NoFile THEN "coords" ELSE "columns"
        /\ cur = Idle
        /\ log = <<>>
        /\ out_files = <<>>
        /\ outdir = <<>>

\* a table of two rows that would render lacked the origin_country column:
\* the run failed with KeyError naming it, no row begun
C13_Witness ==
    /\ pc = "failed"
    /\ font_exists
    /\ coords_doc = RegistryDoc
    /\ rows = <<RowOk1, RowOk2>>
    /\ err.type = "KeyError"
    /\ err.msg = {"origin_country"}
    /\ cur = Idle
    /\ outdir = <<>>

-----------------------------------------------------------------------------
(* SpecLoad: load_coords applied to a registry document, and a layout        *)
(* selected from the mappings it returned                                   *)

T_BASIC_M == <<"B","A","S","I","C","_","M">>
T_Basic_sp_M == <<"B","a","s","i","c"," ","_","M">>

\* the template keys authored under a brand, as the registry's author wrote them
LoadTemplateKeys == {T_basic_m, T_BASIC_M, T_Basic_sp_M}

\* what a brand holds under "templates": a mapping template key -> layout, or
\* a value that is no mapping
LoadBrandVals ==
    {JsonDict(m) : m \in PartialMaps(LoadTemplateKeys, {LayoutA, LayoutB})}
        \cup {JsonNonDict}

\* a top-level key of the document: absent, null, or holding the mapping m
LoadField(name, how, m) ==
    CASE how = "absent" -> <<>>
      [] how = "null" -> (name :> NullCfg)
      [] OTHER -> (name :> m)

\* the registry document with "defaults" and "templates" authored as said
LoadDoc(dhow, thow, t) ==
    LoadField("defaults", dhow, (T_iloom :> LayoutD)) @@ LoadField("templates", thow, t)

LoadInit ==
    /\ font_exists = TRUE
    /\ \/ coords_doc \in {NoFile, BadJson}
       \/ \E dhow \in {"absent", "null", "map"},
             t \in PartialMaps({T_iloom, T_desker}, LoadBrandVals) :
                coords_doc = LoadDoc(dhow, "map", t)
       \/ \E dhow \in {"absent", "null", "map"}, thow \in {"absent", "null"} :
                coords_doc = LoadDoc(dhow, thow, <<>>)
    /\ columns = {}
    /\ defaults = <<>>
    /\ template_coords = <<>>
    /\ template_store = <<>>
    /\ icon_store = {}
    /\ RunIdle
    /\ pc = "call"
    /\ args = [brand |-> T_iloom, template_pdf_path |-> [dir |-> T_iloom, fn |-> F_Basic_M_pdf]]
    /\ ret = NoRet

\* defaults, template_coords = load_coords(coords_json_path)
LoadCall ==
    /\ pc = "call"
    /\ LET loaded == load_coords(coords_doc)
       IN  /\ ret' = loaded
           /\ IF loaded.kind = "raise"
              THEN /\ pc' = "failed"
                   /\ UNCHANGED <<defaults, template_coords>>
              ELSE /\ pc' = "loaded"
                   /\ defaults' = loaded.value.defaults
                   /\ template_coords' = loaded.value.template_coords
    /\ UNCHANGED <<font_exists, coords_doc, columns, template_store, icon_store,
                   runvars, args>>

\* cfg = get_cfg_for_template(defaults, template_coords, brand, template_pdf)
LoadSelect ==
    /\ pc = "loaded"
    /\ ret' = get_cfg_for_template(defaults, template_coords, args.brand,
                                   args.template_pdf_path)
    /\ pc' = "selected"
    /\ UNCHANGED <<envvars, runvars, args>>

LoadNext == LoadCall \/ LoadSelect

SpecLoad == LoadInit /\ [][LoadNext]_vars

\* the brands of a parsed document's "templates" whose value is no mapping
NonDictBrands(doc) ==
    LET templates == GetOrEmpty(doc, "templates")
    IN  {b \in DOMAIN templates : ~IsDict(templates[b])}

\* the document is absent, is no JSON, or has an invalid structure
AbsentOrMalformed(doc) ==
    \/ doc = NoFile
    \/ doc = BadJson
    \/ NonDictBrands(doc) # {}

\* C14: load_coords fails with an error whenever the registry document is
\* absent or malformed, a brand under "templates" whose value is no mapping
\* included; it never returns mappings that leave out a malformed part.
C14_LoadFailsOnMalformed ==
    (pc # "call" /\ AbsentOrMalformed(coords_doc)) =>
        /\ pc = "failed"
        /\ ret.kind = "raise"

\* the template keys authored under the brand of the call that normalise to
\* the key of the call's template file
AuthoredFor(doc, brand, key) ==
    LET templates == GetOrEmpty(doc, "templates")
    IN  IF brand \in DOMAIN templates /\ IsDict(templates[brand])
        THEN {k \in DOMAIN templates[brand].items : norm(k) = key}
        ELSE {}

\* C15: the template-specific mapping returned by load_coords is keyed by
\* (brand, normalised template key): the template component of every key is
\* its own normalisation, and a layout authored under a key that differs from
\* the template file's stem in letter case or whitespace only is the layout
\* selected for that template.
C15_TemplateKeysNormalized ==
    /\ pc \in {"loaded", "selected"} =>
            \A k \in DOMAIN template_coords : k[2] = norm(k[2])
    /\ pc = "selected" =>
            LET authored == AuthoredFor(coords_doc, args.brand, CfgKey)
            IN  \A k \in authored :
                    authored = {k} =>
                        ret = Return(GetOrEmpty(coords_doc, "templates")[args.brand].items[k])

-----------------------------------------------------------------------------
(* SpecPar: two render_row pipelines running against one output directory,  *)
(* their steps interleaved.  cur holds the locals of each pipeline, rows the *)
(* row each pipeline renders, log what each did in order of occurrence.      *)

Pipelines == {1, 2}

\* the same item code as RowOk1 on another template
RowOk3 == Row(T_iloom, T_basic, T_sp_L_sp, T_IL_001, T_KR)

ParRows == {RowOk1, RowOk2, RowOk3}

ParInit ==
    /\ font_exists = TRUE
    /\ coords_doc = RegistryDoc
    /\ columns = Required
    /\ defaults = load_coords(RegistryDoc).value.defaults
    /\ template_coords = load_coords(RegistryDoc).value.template_coords
    /\ template_store = TemplateStore
    /\ icon_store = {F_icon_KR_png}
    /\ outdir = <<>>
    /\ rows \in [Pipelines -> ParRows]
    /\ limit = 0
    /\ pc = "par"
    /\ count = 0
    /\ out_files = <<>>
    /\ cur = [p \in Pipelines |-> Idle]
    /\ err = NoErr
    /\ log = <<>>
    /\ args = <<>>
    /\ ret = NoRet

\* what a pipeline step leaves alone
ParFrame ==
    UNCHANGED <<font_exists, coords_doc, columns, defaults, template_coords,
                template_store, icon_store, rows, limit, pc, count, out_files,
                err, args, ret>>

\* pipeline p goes on with locals c, having done ev
ParGoes(p, c, ev) ==
    /\ cur' = [cur EXCEPT ![p] = c]
    /\ log' = Append(log, Event(p, ev))

\* an exception e leaves the render_row call of pipeline p
ParRaises(p, e) ==
    ParGoes(p, [step |-> "raised", err |-> e] @@ cur[p], "raise")

\* render_row, lines 239-244, in pipeline p
ParResolve(p) ==
    /\ cur[p].step = "idle"
    /\ LET b == BeginRow(p, outdir)
           t == find_template_pdf(template_store, b.brand, b.box_type, b.box_group)
           c == get_cfg_for_template(defaults, template_coords, b.brand, t.value)
       IN  IF t.kind = "raise"
           THEN ParGoes(p, [step |-> "raised", err |-> t] @@ b, "raise")
           ELSE IF c.kind = "raise"
           THEN ParGoes(p, [step |-> "raised", err |-> c] @@ b, "raise")
           ELSE ParGoes(p, [step |-> "overlay", template_pdf |-> t.value,
                            cfg |-> c.value] @@ b, "resolve")
    /\ UNCHANGED outdir
    /\ ParFrame

\* render_row, lines 246-253, in pipeline p
ParOverlay(p) ==
    /\ cur[p].step = "overlay"
    /\ LET overlay_path == OverlayPath(cur[p].sku)
       IN  /\ outdir' = WriteFile(outdir, overlay_path,
                            [kind |-> "overlay", by |-> p,
                             draws |-> make_overlay_pdf(cur[p].cfg, rows[p], icon_store)])
           /\ ParGoes(p, [step |-> "merge", overlay_path |-> overlay_path,
                          overlay_written |-> TRUE] @@ cur[p], "overlay")
    /\ ParFrame

\* render_row, lines 255-256, in pipeline p: PdfReader(overlay_path) reads
\* whatever is at the path now
ParMerge(p) ==
    /\ cur[p].step = "merge"
    /\ IF cur[p].overlay_path \notin DOMAIN outdir
       THEN ParRaises(p, Raise("FileNotFoundError", "overlay", cur[p].overlay_path))
       ELSE ParGoes(p, [step |-> "write",
                        page |-> [template |-> cur[p].template_pdf,
                                  overlay |-> outdir[cur[p].overlay_path]]] @@ cur[p],
                    "merge")
    /\ UNCHANGED outdir
    /\ ParFrame

\* render_row, lines 258-262, in pipeline p
ParWrite(p) ==
    /\ cur[p].step = "write"
    /\ LET out_path == OutPath(cur[p].brand, cur[p].box_type, cur[p].box_group, cur[p].sku)
       IN  /\ outdir' = WriteFile(outdir, out_path,
                            [kind |-> "output", by |-> p, page |-> cur[p].page])
           /\ ParGoes(p, [step |-> "remove", out_path |-> out_path] @@ cur[p], "output")
    /\ ParFrame

\* render_row, lines 264-269, in pipeline p: os.remove of a file that is gone
\* raises, and the bare except swallows it
ParRemove(p) ==
    /\ cur[p].step = "remove"
    /\ outdir' = RemoveFile(outdir, cur[p].overlay_path)
    /\ ParGoes(p, [step |-> "returned",
                   remove_failed |-> cur[p].overlay_path \notin DOMAIN outdir] @@ cur[p],
               "return")
    /\ ParFrame

ParNext ==
    \E p \in Pipelines :
        \/ ParResolve(p)
        \/ ParOverlay(p)
        \/ ParMerge(p)
        \/ ParWrite(p)
        \/ ParRemove(p)

SpecPar == ParInit /\ [][ParNext]_vars

\* the steps of the two pipelines overlapped in time: some step of one lies
\* between two steps of the other
Overlapped ==
    \E i, j, k \in 1..Len(log) :
        /\ i < j
        /\ j < k
        /\ log[i].row = log[k].row
        /\ log[j].row # log[i].row

\* pipeline p merged an overlay that another pipeline wrote
MergedForeign(p) == "page" \in DOMAIN cur[p] /\ cur[p].page.overlay.by # p

\* pipeline p found its overlay deleted when it came to merge it
OverlayGone(p) ==
    /\ cur[p].step = "raised"
    /\ cur[p].err.type = "FileNotFoundError"
    /\ cur[p].err.what = "overlay"

\* C16: two pipelines use the same intermediate overlay name exactly when
\* their rows have the same item code; a pipeline merges an overlay written
\* by the other, or finds its overlay deleted, only when the two rows have the
\* same item code and the pipelines overlapped in time: when at most one
\* pipeline runs against the directory at a time, every pipeline merges the
\* overlay it wrote itself.  (That the collision does happen under
\* interleaving is the state C16_Witness.)
C16_OverlayNameCollision ==
    /\ \A p, q \in Pipelines :
            ("overlay_path" \in DOMAIN cur[p] /\ "overlay_path" \in DOMAIN cur[q]) =>
                (cur[p].overlay_path = cur[q].overlay_path
                    <=> Str(rows[p].item_code) = Str(rows[q].item_code))
    /\ \A p \in Pipelines :
            (MergedForeign(p) \/ OverlayGone(p)) =>
                /\ Overlapped
                /\ \E q \in Pipelines \ {p} :
                        Str(rows[q].item_code) = Str(rows[p].item_code)
    /\ \A p \in Pipelines :
            ("page" \in DOMAIN cur[p] /\ ~Overlapped) =>
                /\ cur[p].page.overlay.by = p
                /\ cur[p].page.overlay.draws
                        = make_overlay_pdf(cur[p].cfg, rows[p], icon_store)

\* two pipelines for the item code IL-001 ran interleaved: the first merged
\* the overlay the second had written and returned its path, and the second
\* found the overlay deleted
C16_Witness ==
    /\ rows[1] = RowOk1
    /\ rows[2] = RowOk3
    /\ cur[1].step = "returned"
    /\ MergedForeign(1)
    /\ cur[1].page.overlay.draws # make_overlay_pdf(cur[1].cfg, rows[1], icon_store)
    /\ OverlayGone(2)

\* the files of the output directory a step of the row in progress may touch:
\* the row's overlay file and the row's output document
RowFiles ==
    {OverlayPath(cur.sku), OutPath(cur.brand, cur.box_type, cur.box_group, cur.sku)}

\* C19: rendering leaves its inputs unchanged: no step of a render_row call,
\* nor of the loop around it, modifies the loaded registry mappings (defaults,
\* template_coords and the layouts they hold), the template files, the icon
\* files or the rows; in the output directory a row's steps change nothing
\* but the row's overlay file and output document.
C19_InputsUnchanged ==
    [][pc = "row" =>
        /\ defaults' = defaults
        /\ template_coords' = template_coords
        /\ template_store' = template_store
        /\ icon_store' = icon_store
        /\ rows' = rows
        /\ coords_doc' = coords_doc
        /\ \A f \in (DOMAIN outdir \cup DOMAIN outdir') \ RowFiles :
                /\ f \in DOMAIN outdir
                /\ f \in DOMAIN outdir'
                /\ outdir'[f] = outdir[f]]_vars

\* two rows were rendered, the second from a template-specific layout: the
\* registry mappings are as load_coords returned them and the stores as at
\* the start, while the output directory holds the two documents
C19_Witness ==
    /\ pc = "done"
    /\ rows = <<RowOk1, RowOk2>>
    /\ Len(out_files) = 2
    /\ defaults = load_coords(RegistryDoc).value.defaults
    /\ template_coords = load_coords(RegistryDoc).value.template_coords
    /\ template_store = TemplateStore
    /\ icon_store = {F_icon_KR_png}
    /\ DOMAIN outdir = {RowOutPath(1), RowOutPath(2)}

\* C20: brand strings are canonicalised like the other lookup keys: a row
\* whose brand differs from a canonical brand in letter case or whitespace
\* only resolves to the template and to the registry layout that the
\* canonical brand resolves to, so that a registry and a template directory
\* authored as "iloom" serve a row with brand "ILOOM".
C20_BrandCanonicalized ==
    (pc # "start" /\ cur.step \notin {"idle", "resolve"}) =>
        LET canonical == norm(cur.brand)
            t == find_template_pdf(template_store, canonical, cur.box_type, cur.box_group)
            c == get_cfg_for_template(defaults, template_coords, canonical, t.value)
        IN  (t.kind = "ok" /\ c.kind = "ok") =>
                /\ "cfg" \in DOMAIN cur
                /\ cur.template_pdf = t.value
                /\ cur.cfg = c.value

-----------------------------------------------------------------------------
(* SpecGuide: the layout guide_maker.main selects and draws for a template,  *)
(* beside the layout get_cfg_for_template returns for it                     *)

NoNote == "<None>"
NoteDefaults == "NO TEMPLATE COORDS (using brand defaults)"
NoteNoCoords == "NO COORDS (grid only)"

\* guide_maker.main, lines 146-152: template-specific > brand default > None
guide_select(dflts, tcoords, brand, fn) ==
    LET template_key == norm(SplitextStem(fn))
        cfg == DictGet(tcoords, <<brand, template_key>>)
        fallback == DictGet(dflts, brand)
    IN  IF cfg = NullCfg
        THEN [cfg |-> fallback,
              note |-> IF Truthy(fallback) THEN NoteDefaults ELSE NoteNoCoords,
              missing |-> TRUE]
        ELSE [cfg |-> cfg, note |-> NoNote, missing |-> FALSE]

\* make_guide_overlay_pdf: `if not cfg:` leaves the grid alone, else the
\* layout's rectangles and points are marked
guide_drawn(cfg) == IF Truthy(cfg) THEN cfg ELSE NullCfg

\* the guide of the template the renderer was asked about
GuideSelect ==
    /\ pc = "ret"
    /\ LET g == guide_select(defaults, template_coords, args.brand,
                             args.template_pdf_path.fn)
       IN  cur' = [step |-> "guide", cfg |-> g.cfg, note |-> g.note,
                   missing |-> g.missing, drawn |-> guide_drawn(g.cfg)]
    /\ pc' = "guide"
    /\ UNCHANGED <<envvars, outdir, rows, limit, count, out_files, err, log, args, ret>>

GuideInit == CfgInit

GuideNext == CfgCall \/ GuideSelect

SpecGuide == GuideInit /\ [][GuideNext]_vars

\* C21: the guide generator and the renderer select the same layout for every
\* registry and every (brand, template key): the layout the guide draws is the
\* layout get_cfg_for_template returns, and the guide falls to "no
\* coordinates" (nothing drawn, the NO COORDS note) exactly when the renderer
\* raises layout-not-found, a present but empty registry entry included.
C21_GuideMatchesRenderer ==
    pc = "guide" =>
        /\ ret.kind = "ok" => cur.drawn = ret.value
        /\ ret.kind = "raise" <=> (cur.drawn = NullCfg /\ cur.note = NoteNoCoords)

=============================================================================
